---- MODULE Spec2Model ----
(***************************************************************************)
(* I2C SD-Card Module (ATtiny1614 firmware, src/I2CSDCardModule.ino).      *)
(*                                                                         *)
(* The firmware is a TWI client whose whole behaviour lives in the         *)
(* interrupt routine ISR(TWI0_TWIS_vect): an address interrupt calls       *)
(* AddressHostRead / AddressHostWrite, a stop interrupt calls Stop, a data *)
(* interrupt calls DataHostRead or DataHostWrite.  The model has one       *)
(* action per interrupt kind.  The SD library (SD.open, File.read, ...)    *)
(* is the storage backend; it is modelled as a map from names to entries.  *)
(* Bytes are integers 0..255, commands are their ASCII codes.              *)
(***************************************************************************)
EXTENDS Integers, Sequences, FiniteSets, TLC

\* const uint8_t Namelength = 32;  char Filename[Namelength];
Namelength == 32

\* Bounds of the model (not program constants).
MaxNameLen == 2      \* longest name the host sends in the file-transfer runs
MaxFileLen == 2      \* longest file / payload per selection
MaxOut     == 5      \* bytes the host reads after one command
MaxSel     == 5      \* address selections the host makes in the free runs
MaxSelFile == 6      \* address selections the host makes in the file-transfer runs
MaxSelName == 2      \* address selections the host makes in the filename runs

\* The command bytes the firmware compares cmd with.
Cmd == [F |-> 70, W |-> 87, R |-> 82, S |-> 83, A |-> 65, D |-> 68,
        E |-> 69, X |-> 88, L |-> 76, Z |-> 90]

\* Inputs of the host: command selectors (0, the ten commands, and 66 = 'B',
\* a byte that is no command), name characters and payload bytes.
CmdBytes  == {0, 65, 66, 68, 69, 70, 76, 82, 83, 87, 88, 90}
NameBytes == {65}
DataBytes == {65, 66}

\* What File.read() gives, as a uint8_t, when there is nothing to read (-1).
EOFByte == 255

VARIABLES
  \* firmware globals
  cmd,        \* uint8_t cmd: currently active command
  ch,         \* uint8_t ch: filename pointer
  ptr,        \* uint8_t ptr: size / name pointer
  checknack,  \* boolean checknack
  Filename,   \* char Filename[Namelength], as a sequence of Namelength bytes
  Filesize,   \* fileData.Filesize
  myFile,     \* File myFile
  dir,        \* File dir
  halted,     \* the software reset has been triggered
  oob,        \* a store outside Filename[0..Namelength-1] has happened
  \* storage backend
  card,       \* the SD card's root directory: name -> entry
  \* TWI hardware
  bus,        \* "idle", "wr", "rd0" (read addressed), "rd1" (first byte loaded),
              \* "rd" (later byte loaded), "rdn" (host NACKed)
  RXACK,      \* TWI0.SSTATUS & TWI_RXACK_bm: the host's last answer was a NACK
  \* what the host has observed / done (history of the current selection)
  ev,         \* the last interrupt served
  ack,        \* the last SendResponse: TRUE = ACK
  nw,         \* bytes received in the current write phase (counted up to 2)
  cmdAck,     \* the command byte of the current selection was acknowledged
  fresh,      \* the command byte of the current selection opened myFile
  data,       \* payload bytes received in the current selection (commands 'W' and 'A')
  out,        \* bytes produced for the host since the last write-direction selection
              \* (the last MaxOut of them)
  shape,      \* the bus phases of the current selection
  exp,        \* what the host's preceding stop-terminated W / W,A transactions sent
  prevWA,     \* how the preceding selection's 'W' or 'A' was acknowledged
  prevX,      \* the preceding selection was 'X' and its first byte read was 1
  removes,    \* calls of SD.remove since the last selection
  chain,      \* the payload of the 'W' phases chained by repeated start since
              \* the 'W' that opened myFile
  \* host program
  hpc,        \* position of the scripted host ("free" when it is not scripted)
  hlen        \* free host: selections made; listSDContents: filename.length(),
              \* counted up to 1

dvars == <<cmd, ch, ptr, checknack, Filename, Filesize, myFile, dir, halted, oob, card>>
gvars == <<bus, RXACK, ev, ack, nw, cmdAck, fresh, data, out, shape, exp, prevWA, prevX,
          chain, removes>>
hvars == <<hpc, hlen>>
vars  == <<cmd, ch, ptr, checknack, Filename, Filesize, myFile, dir, halted, oob, card,
           bus, RXACK, ev, ack, nw, cmdAck, fresh, data, out, shape, exp, prevWA, prevX,
           chain, removes, hpc, hlen>>

(***************************************************************************)
(* Storage backend                                                         *)
(***************************************************************************)

RECURSIVE SeqsUpTo(_, _)
SeqsUpTo(S, n) ==
  IF n = 0 THEN {<<>>}
  ELSE LET shorter == SeqsUpTo(S, n - 1)
       IN  shorter \cup {Append(s, x) : s \in {t \in shorter : Len(t) = n - 1}, x \in S}

\* The names the card can hold in the model.
CardNames == SeqsUpTo(NameBytes, MaxNameLen) \ {<<>>}

NoEntry == [kind |-> "none", data |-> <<>>]
NoFile  == [open |-> FALSE, name |-> <<>>, pos |-> 0, mode |-> "-"]
NoDir   == [open |-> FALSE, idx |-> 0]

BlankCard == [n \in CardNames |-> NoEntry]

Entry(c, n) == IF n \in CardNames THEN c[n] ELSE NoEntry

\* The C string held in a char buffer: the bytes before the first 0.  With no 0
\* inside the buffer the string runs on past its end; whatever follows, it has
\* at least Len(buf) characters.
RECURSIVE CStr(_)
CStr(buf) ==
  IF buf = <<>> \/ Head(buf) = 0 THEN <<>> ELSE <<Head(buf)>> \o CStr(Tail(buf))

\* An open that looks at the first character of the name only.
SDopenAsShort(c, n, m, d) ==
  LET k == IF Len(n) > 1 THEN SubSeq(n, 1, 1) ELSE n
  IN  IF k \notin CardNames \/ c[k].kind = "dir" \/ (m = "r" /\ c[k].kind = "none")
      THEN [file |-> NoFile, card |-> c]
      ELSE [file |-> [open |-> TRUE, name |-> k,
                      pos |-> IF m = "a" THEN Len(d) ELSE 0, mode |-> m],
            card |-> [c EXCEPT ![k] = [kind |-> "file", data |-> d]]]

\* SD.open(Filename, flags): the handle and the card afterwards.
\*   "w" = O_RDWR | O_CREAT | O_TRUNC,  "a" = O_RDWR | O_CREAT | O_APPEND,
\*   "r" = O_READ.  Only regular files are opened.
SDopenAs(c, n, m, d) ==
  IF n \notin CardNames \/ c[n].kind = "dir" \/ (m = "r" /\ c[n].kind = "none")
  THEN [file |-> NoFile, card |-> c]
  ELSE [file |-> [open |-> TRUE, name |-> n,
                  pos |-> IF m = "a" THEN Len(d) ELSE 0, mode |-> m],
        card |-> [c EXCEPT ![n] = [kind |-> "file", data |-> d]]]

\* An open that creates the file whatever the flags.
SDopenCreating(c, n, m) ==
  SDopenAs(c, n, IF m = "r" THEN "a" ELSE m, IF m = "w" THEN <<>> ELSE Entry(c, n).data)

SDopen(c, n, m) ==
  SDopenAs(c, n, m, IF m = "w" THEN <<>> ELSE Entry(c, n).data)

\* myFile.write(b)
FileWrite(c, f, b) ==
  IF f.open /\ f.mode \in {"w", "a"} /\ Entry(c, f.name).kind = "file"
  THEN LET d  == c[f.name].data
           at == IF f.mode = "a" THEN Len(d) ELSE f.pos
           nd == IF at < Len(d) THEN [d EXCEPT ![at + 1] = b] ELSE Append(d, b)
       IN  [file |-> [f EXCEPT !.pos = at + 1],
            card |-> [c EXCEPT ![f.name] = [kind |-> "file", data |-> nd]]]
  ELSE [file |-> f, card |-> c]

\* myFile.read(), converted to uint8_t
FileRead(c, f) ==
  IF f.open /\ Entry(c, f.name).kind = "file" /\ f.pos < Len(c[f.name].data)
  THEN [byte |-> c[f.name].data[f.pos + 1], file |-> [f EXCEPT !.pos = f.pos + 1]]
  ELSE [byte |-> EOFByte, file |-> f]

\* myFile.size()
FileSize(c, f) ==
  IF f.open /\ Entry(c, f.name).kind = "file" THEN Len(c[f.name].data) ELSE 0

\* A remove that reports success and leaves the entry in place.
SDremoveKeeps(c, n) == [ok |-> Entry(c, n).kind = "file", card |-> c]

\* An exists that overlooks empty files.
SDexistsNonEmpty(c, n) == Entry(c, n).kind # "none" /\ Entry(c, n).data # <<>>

\* SD.exists(Filename)
SDexists(c, n) == Entry(c, n).kind # "none"

\* SD.remove(Filename)
SDremove(c, n) ==
  IF Entry(c, n).kind = "file"
  THEN [ok |-> TRUE, card |-> [c EXCEPT ![n] = NoEntry]]
  ELSE [ok |-> FALSE, card |-> c]

\* A mkdir that reports success and makes nothing.
SDmkdirNothing(c, n, mk) == [ok |-> n \in CardNames, card |-> c]

\* SD.mkdir(Filename); on a name that exists the outcome mk is the backend's.
SDmkdir(c, n, mk) ==
  IF n \notin CardNames THEN [ok |-> FALSE, card |-> c]
  ELSE IF c[n].kind = "none"
       THEN [ok |-> TRUE, card |-> [c EXCEPT ![n] = [kind |-> "dir", data |-> <<>>]]]
       ELSE [ok |-> mk, card |-> c]

\* The root directory's entries in the order dir.openNextFile() returns them
\* (the model lists them by name: shorter first, then by byte value).
RECURSIVE NameVal(_)
NameVal(n) == IF n = <<>> THEN 0 ELSE NameVal(SubSeq(n, 1, Len(n) - 1)) * 256 + n[Len(n)]

RECURSIVE SortNames(_)
SortNames(S) ==
  IF S = {} THEN <<>>
  ELSE LET m == CHOOSE x \in S : \A y \in S : NameVal(x) <= NameVal(y)
       IN  <<m>> \o SortNames(S \ {m})

RootEntries(c) == SortNames({n \in CardNames : c[n].kind # "none"})

\* entry.name()[p]: File keeps the name in char _name[13], padded with zeros.
NameChar(n, p) == IF p < Len(n) THEN n[p + 1] ELSE 0

(***************************************************************************)
(* Firmware: the functions that handle each case                           *)
(***************************************************************************)

\* The name the backend reads from Filename.
Name == CStr(Filename)

\* A Stop that closes myFile after the writing commands only.
StopClosesWriters(c) == c \in {Cmd.W, Cmd.A}

\* Stop(): the commands whose case closes myFile.
StopCloses(c) == c \in {Cmd.W, Cmd.R, Cmd.A, Cmd.S}

\* A filename buffer that takes one character only.
NameRoomShort(c) == c < 1

\* DataHostWrite: ch < Namelength
NameRoom(c) == c < Namelength

\* The size with its least significant byte first.
SizeByteLsbFirst(size, p) == (size \div (256 ^ p)) % 256

\* DataHostRead, case 'S': fileData.Filebytes[3-ptr] of the little-endian union.
SizeByte(size, p) == (size \div (256 ^ (3 - p))) % 256

\* Open flags with 'A' truncating as 'W' does.
OpenModeTruncating(b) == CASE b = Cmd.W -> "w"
                           [] b = Cmd.A -> "w"
                           [] OTHER     -> "r"

\* DataHostWrite: the open flags of the commands that open myFile.
OpenMode(b) == CASE b = Cmd.W -> "w"
                 [] b = Cmd.A -> "a"
                 [] OTHER     -> "r"

\* A dispatch that opens the file again although myFile is open.
DispatchReopening(b, mk) ==
  IF b = Cmd.F THEN
    [myFile |-> myFile, card |-> card, ret |-> TRUE, opened |-> FALSE]
  ELSE IF b \in {Cmd.W, Cmd.R, Cmd.S, Cmd.A} THEN
    LET o == SDopen(card, Name, OpenMode(b))
    IN  [myFile |-> o.file, card |-> o.card, ret |-> o.file.open,
         opened |-> o.file.open /\ ~myFile.open]
  ELSE
    [myFile |-> myFile, card |-> card, ret |-> myFile.open, opened |-> FALSE]

\* DataHostWrite with cmd == 0, after cmd = TWI0.SDATA: what the command byte b
\* does.  ret is the function's return value, opened says that SD.open gave
\* myFile a file.
Dispatch(b, mk) ==
  IF b = Cmd.F THEN
    [myFile |-> myFile, card |-> card, ret |-> TRUE, opened |-> FALSE]
  ELSE IF ~myFile.open THEN
    IF b \in {Cmd.W, Cmd.R, Cmd.S, Cmd.A} THEN
      LET o == SDopen(card, Name, OpenMode(b))
      IN  [myFile |-> o.file, card |-> o.card, ret |-> o.file.open,
           opened |-> o.file.open]
    ELSE IF b = Cmd.D THEN
      LET m == SDmkdir(card, Name, mk)
      IN  [myFile |-> myFile, card |-> m.card, ret |-> m.ok, opened |-> FALSE]
    ELSE
      [myFile |-> myFile, card |-> card, ret |-> FALSE, opened |-> FALSE]
  ELSE
    [myFile |-> myFile, card |-> card, ret |-> TRUE, opened |-> FALSE]

\* A store of the name character without the terminator after it.
StoreNameOnly(buf, c, b) == [buf EXCEPT ![c + 1] = b]

\* DataHostWrite: Filename[ch++] = TWI0.SDATA; Filename[ch] = 0; as far as the
\* stores fall inside the buffer (c is ch before the statement).
StoreName(buf, c, b) ==
  LET stored == [buf EXCEPT ![c + 1] = b]
  IN  IF c + 1 < Namelength THEN [stored EXCEPT ![c + 2] = 0] ELSE stored

\* The variables one byte stored past the end of Filename can clear: none of
\* the modelled ones, or the global the linker placed there (a byte-sized one,
\* or the low byte of fileData.Filesize).
Victims == {"none", "cmd", "ch", "checknack", "Filesize"}

\* boolean DataHostWrite (): b is TWI0.SDATA.  v is the variable hit by the
\* store Filename[ch] = 0 when ch has reached Namelength.
DataHostWrite(b, v, mk) ==
  IF cmd = 0 THEN
    LET d == Dispatch(b, mk)
    IN  [cmd |-> b, ch |-> ch, Filename |-> Filename, checknack |-> checknack,
         Filesize |-> Filesize, oob |-> oob, myFile |-> d.myFile, card |-> d.card,
         ret |-> d.ret, opened |-> d.opened]
  ELSE IF cmd = Cmd.F /\ NameRoom(ch) THEN
    LET ch1    == ch + 1
        inside == ch1 < Namelength
    IN  [cmd |-> IF ~inside /\ v = "cmd" THEN 0 ELSE cmd,
         ch |-> IF ~inside /\ v = "ch" THEN 0 ELSE ch1,
         Filename |-> StoreName(Filename, ch, b),
         checknack |-> IF ~inside /\ v = "checknack" THEN FALSE ELSE checknack,
         Filesize |-> IF ~inside /\ v = "Filesize"
                      THEN Filesize - (Filesize % 256) ELSE Filesize,
         oob |-> oob \/ ~inside, myFile |-> myFile, card |-> card,
         ret |-> TRUE, opened |-> fresh]
  ELSE IF cmd \in {Cmd.W, Cmd.A} THEN
    LET w == FileWrite(card, myFile, b)
    IN  [cmd |-> cmd, ch |-> ch, Filename |-> Filename, checknack |-> checknack,
         Filesize |-> Filesize, oob |-> oob, myFile |-> w.file, card |-> w.card,
         ret |-> TRUE, opened |-> fresh]
  ELSE
    [cmd |-> cmd, ch |-> ch, Filename |-> Filename, checknack |-> checknack,
     Filesize |-> Filesize, oob |-> oob, myFile |-> myFile, card |-> card,
     ret |-> FALSE, opened |-> fresh]

\* A size query that gives three bytes.
SizeRoomNarrow(p) == p < 3

\* DataHostRead, case 'S': ptr < 4
SizeRoom(p) == p < 4

\* void DataHostRead (): response is what TWI0.SDATA gets; reset says that
\* RSTCTRL.SWRR was written.
DataHostRead ==
  LET same == [response |-> 0, myFile |-> myFile, dir |-> dir, ptr |-> ptr,
               card |-> card, Filesize |-> Filesize, reset |-> FALSE]
  IN
  IF cmd = Cmd.R THEN
    LET r == FileRead(card, myFile)
    IN  [same EXCEPT !.response = r.byte, !.myFile = r.file]
  ELSE IF cmd = Cmd.L THEN
    LET d       == IF dir.open THEN dir ELSE [open |-> TRUE, idx |-> 0]
        entries == RootEntries(card)
    IN  IF d.idx < Len(entries) THEN
          LET c == NameChar(entries[d.idx + 1], ptr)
          IN  [same EXCEPT !.response = c,
                           !.dir = [d EXCEPT !.idx = d.idx + 1],
                           !.ptr = IF c = 0 THEN 0 ELSE (ptr + 1) % 256]
        ELSE [same EXCEPT !.dir = NoDir]
  ELSE IF cmd = Cmd.E THEN
    [same EXCEPT !.response = IF SDexists(card, Name) THEN 1 ELSE 0]
  ELSE IF cmd = Cmd.X THEN
    LET x == SDremove(card, Name)
    IN  [same EXCEPT !.response = IF x.ok THEN 1 ELSE 0, !.card = x.card]
  ELSE IF cmd = Cmd.S THEN
    IF SizeRoom(ptr) THEN
      LET size == IF ptr = 0 THEN FileSize(card, myFile) ELSE Filesize
      IN  [same EXCEPT !.response = SizeByte(size, ptr), !.Filesize = size,
                       !.ptr = ptr + 1]
    ELSE same
  ELSE IF cmd = Cmd.Z THEN
    [same EXCEPT !.reset = TRUE]
  ELSE same

\* void Stop ()
Stop ==
  [myFile |-> IF StopCloses(cmd) THEN NoFile ELSE myFile,
   dir    |-> IF cmd = Cmd.L THEN NoDir ELSE dir]

(***************************************************************************)
(* History kept for the host's side of the protocol                        *)
(***************************************************************************)

NoExp == [on |-> FALSE, data |-> <<>>, more |-> <<>>, app |-> FALSE, fresh |-> FALSE,
          age |-> 0]

\* At a stop: a transaction of one write phase (shape "w") whose command 'W'
\* was acknowledged starts the record of what the host has sent to the file
\* (fresh: the 'W' opened the file); such a transaction with command 'A' that
\* directly follows adds its payload as more.
ExpAtStop ==
  IF cmd = Cmd.W /\ cmdAck /\ shape = "w" THEN
    [on |-> TRUE, data |-> data, more |-> <<>>, app |-> FALSE,
     fresh |-> fresh, age |-> 0]
  ELSE IF cmd = Cmd.A /\ cmdAck /\ shape = "w" /\ exp.on /\ exp.age = 1 /\ ~exp.app THEN
    [on |-> TRUE, data |-> exp.data, more |-> data, app |-> TRUE,
     fresh |-> exp.fresh /\ fresh, age |-> 0]
  ELSE exp

\* At a write-direction selection: the record is kept for the selection that
\* directly follows the transaction and dropped after it.
ExpAtSelect ==
  IF exp.on /\ exp.age = 0 /\ shape = "ws" THEN [exp EXCEPT !.age = 1] ELSE NoExp

\* The phases of the transaction in progress: "w" = one write phase since the
\* start condition, "wr" = then a repeated start and a read phase, "ws", "wrs" =
\* then the stop, "wsr" = a read transaction directly after a "w" transaction.
ShapeAfter(e) ==
  CASE e = "AddrWrite" /\ bus = "idle" -> "w"
    [] e = "AddrRead" /\ shape = "w"    -> "wr"
    [] e = "AddrRead" /\ shape = "ws"   -> "wsr"
    [] e = "Stop" /\ shape = "w"        -> "ws"
    [] e = "Stop" /\ shape = "wr"       -> "wrs"
    [] e = "Stop" /\ shape = "wsr"      -> "wsrs"
    [] OTHER                            -> "x"

NoChain == [on |-> FALSE, data |-> <<>>]

\* At a byte b in write direction: a 'W' that opened myFile starts the chain,
\* a 'W' that finds the chain's handle open continues it, any other command
\* byte ends it, and a payload byte under 'W' is added to it.
ChainAtWrite(b, opened) ==
  IF cmd = 0 THEN
    IF b = Cmd.W /\ opened THEN [on |-> TRUE, data |-> <<>>]
    ELSE IF b = Cmd.W /\ myFile.open /\ chain.on THEN chain
    ELSE NoChain
  ELSE IF cmd = Cmd.W /\ chain.on THEN [chain EXCEPT !.data = Append(@, b)]
  ELSE chain

(***************************************************************************)
(* ISR(TWI0_TWIS_vect): one action per interrupt                           *)
(***************************************************************************)

\* An AddressHostWrite that leaves the stream cursor where it is.
AddressHostWriteKeepingPtr == [cmd |-> 0, ch |-> 0, ptr |-> ptr, ret |-> TRUE]

\* boolean AddressHostWrite (): the globals it assigns and its return value.
AddressHostWrite == [cmd |-> 0, ch |-> 0, ptr |-> 0, ret |-> TRUE]

\* Address interrupt, write direction: SendResponse(AddressHostWrite()).
AddressHostWriteEv ==
  /\ ~halted
  /\ bus \in {"idle", "wr", "rdn"}
  /\ cmd' = AddressHostWrite.cmd /\ ch' = AddressHostWrite.ch
  /\ ptr' = AddressHostWrite.ptr
  /\ bus' = "wr" /\ ev' = "AddrWrite" /\ ack' = AddressHostWrite.ret
  /\ nw' = 0 /\ cmdAck' = FALSE /\ fresh' = FALSE /\ data' = <<>> /\ out' = <<>>
  /\ shape' = ShapeAfter("AddrWrite")
  /\ exp' = ExpAtSelect
  /\ prevWA' = IF cmd \in {Cmd.W, Cmd.A} /\ cmdAck
               THEN (IF fresh THEN "fresh" ELSE "cont") ELSE "no"
  /\ prevX' = (cmd = Cmd.X /\ out # <<>> /\ out[1] = 1)
  /\ chain' = chain /\ removes' = 0
  /\ UNCHANGED <<checknack, Filename, Filesize, myFile, dir, halted, oob, card, RXACK>>

\* An AddressHostRead that resets what AddressHostWrite resets.
AddressHostReadResetting == [cmd |-> 0, ch |-> 0, ptr |-> 0, ret |-> TRUE]

\* boolean AddressHostRead (): it assigns no global and returns true.
AddressHostRead == [cmd |-> cmd, ch |-> ch, ptr |-> ptr, ret |-> TRUE]

\* Address interrupt, read direction: SendResponse(AddressHostRead()).
AddressHostReadEv ==
  /\ ~halted
  /\ bus \in {"idle", "wr", "rdn"}
  /\ cmd' = AddressHostRead.cmd /\ ch' = AddressHostRead.ch
  /\ ptr' = AddressHostRead.ptr
  /\ bus' = "rd0" /\ ev' = "AddrRead" /\ ack' = AddressHostRead.ret
  /\ shape' = ShapeAfter("AddrRead")
  /\ UNCHANGED <<checknack, Filename, Filesize, myFile, dir, halted, oob, card,
                 RXACK, nw, cmdAck, fresh, data, out, exp, prevWA, prevX>>
  /\ chain' = NoChain /\ removes' = 0

\* Stop interrupt: Stop(), then TWI_SCMD_COMPTRANS_gc.
StopIsr ==
  /\ ~halted
  /\ myFile' = Stop.myFile /\ dir' = Stop.dir
  /\ bus' = "idle" /\ ev' = "Stop"
  /\ shape' = ShapeAfter("Stop")
  /\ exp' = ExpAtStop
  /\ UNCHANGED <<cmd, ch, ptr, checknack, Filename, Filesize, halted, oob, card,
                 RXACK, ack, nw, cmdAck, fresh, data, out, prevWA, prevX, removes>>
  /\ chain' = NoChain

\* The stop condition after a write phase, or after the host's NACK of the
\* last byte it read.
StopEv == bus \in {"wr", "rdn"} /\ StopIsr

\* Data interrupt, host writing: SendResponse(DataHostWrite()).
DataHostWriteEv(b, v, mk) ==
  /\ ~halted
  /\ bus = "wr"
  /\ LET r == DataHostWrite(b, v, mk)
     IN  /\ cmd' = r.cmd /\ ch' = r.ch /\ Filename' = r.Filename
         /\ checknack' = r.checknack /\ oob' = r.oob /\ Filesize' = r.Filesize
         /\ myFile' = r.myFile /\ card' = r.card
         /\ ack' = r.ret
         /\ cmdAck' = IF cmd = 0 THEN r.ret ELSE cmdAck
         /\ fresh' = r.opened
         /\ chain' = ChainAtWrite(b, r.opened)
  /\ data' = IF cmd \in {Cmd.W, Cmd.A} \/ (cmd = Cmd.F /\ Len(data) < Namelength)
             THEN Append(data, b) ELSE data
  /\ nw' = IF nw < 2 THEN nw + 1 ELSE nw
  /\ ev' = "DataWrite"
  /\ UNCHANGED <<ptr, dir, halted, bus, RXACK, out, shape, exp, prevWA, prevX, removes>>

\* A test of RXACK that does not look at checknack.
NackSeenAlways(hostNack) == hostNack

\* ISR: (status & TWI_RXACK_bm) && checknack
NackSeen(hostNack) == hostNack /\ checknack

\* Data interrupt, host reading.  The first one of a read phase follows the
\* address; each later one follows the host's answer to the byte sent
\* (hostNack), which the hardware latches in RXACK.
DataHostReadEv(hostNack) ==
  /\ ~halted
  /\ bus \in {"rd0", "rd1", "rd"}
  /\ bus = "rd0" => hostNack = RXACK
  /\ RXACK' = hostNack
  /\ IF NackSeen(hostNack)
     THEN /\ checknack' = FALSE
          /\ UNCHANGED <<myFile, dir, ptr, card, Filesize, halted, out>>
     ELSE LET r == DataHostRead
          IN  /\ myFile' = r.myFile /\ dir' = r.dir /\ ptr' = r.ptr
              /\ card' = r.card /\ Filesize' = r.Filesize
              /\ halted' = r.reset
              /\ out' = IF r.reset THEN out
                        ELSE IF Len(out) < MaxOut THEN Append(out, r.response)
                        ELSE Append(Tail(out), r.response)
              /\ checknack' = TRUE
  /\ bus' = IF bus = "rd0" THEN "rd1" ELSE IF hostNack THEN "rdn" ELSE "rd"
  /\ ev' = "DataRead"
  /\ UNCHANGED <<cmd, ch, Filename, oob, ack, nw, cmdAck, fresh, data, shape, exp, prevWA,
                 prevX, chain>>
  /\ removes' = IF ~NackSeen(hostNack) /\ cmd = Cmd.X THEN removes + 1 ELSE removes

(***************************************************************************)
(* Specification: a host that may raise any interrupt the bus allows       *)
(***************************************************************************)

\* The state after power-up and setup(), with card c in the socket.
PowerUp(c) ==
  /\ cmd = 0 /\ ch = 0 /\ ptr = 0 /\ checknack = FALSE
  /\ Filename = [i \in 1..Namelength |-> 0]
  /\ Filesize = 0
  /\ myFile = NoFile /\ dir = NoDir
  /\ halted = FALSE /\ oob = FALSE
  /\ card = c
  /\ bus = "idle" /\ RXACK = FALSE
  /\ ev = "Reset" /\ ack = TRUE /\ nw = 0 /\ cmdAck = FALSE /\ fresh = FALSE
  /\ data = <<>> /\ out = <<>> /\ shape = "x" /\ exp = NoExp /\ prevWA = "no"
  /\ prevX = FALSE /\ chain = NoChain /\ removes = 0

Init == PowerUp(BlankCard) /\ hpc = "free" /\ hlen = 0

\* The bytes the host sends: a command selector from C when the firmware
\* expects one, name characters after 'F' (at most MaxNameLen of them), payload
\* after 'W' and 'A' (at most MaxFileLen bytes, and no file grows beyond
\* MaxFileLen), and one more byte after any other command.
HostSends(C, b) ==
  IF cmd = 0 THEN b \in C
  ELSE IF cmd = Cmd.F THEN b \in NameBytes /\ ch < MaxNameLen
  ELSE IF cmd \in {Cmd.W, Cmd.A}
       THEN /\ b \in DataBytes
            /\ Len(data) < MaxFileLen
            /\ Len(Entry(card, myFile.name).data) < MaxFileLen
       ELSE b \in DataBytes /\ nw < 2

HostWrite ==
  \E b \in CmdBytes \cup NameBytes \cup DataBytes, mk \in BOOLEAN :
    HostSends(CmdBytes, b) /\ DataHostWriteEv(b, "none", mk)

HostSelectWrite == hlen < MaxSel /\ AddressHostWriteEv

HostSelectRead == hlen < MaxSel /\ Len(out) < MaxOut /\ AddressHostReadEv

HostRead ==
  \E n \in BOOLEAN : (~n => Len(out) < MaxOut) /\ DataHostReadEv(n)

Next ==
  \/ HostSelectWrite /\ hlen' = hlen + 1 /\ hpc' = hpc
  \/ HostSelectRead /\ hlen' = hlen + 1 /\ hpc' = hpc
  \/ StopEv /\ UNCHANGED hvars
  \/ HostWrite /\ UNCHANGED hvars
  \/ HostRead /\ UNCHANGED hvars

Spec == Init /\ [][Next]_vars

(***************************************************************************)
(* Specification: a host that transfers files                              *)
(*                                                                         *)
(* The host uses the commands of the file-transfer routines (write_data,   *)
(* append_data, get_file_size, read_file_content of the ESP32 host), in    *)
(* and the exists query, in any order and with any transaction boundaries, *)
(* on a card that already holds one file.                                  *)
(***************************************************************************)

FileCmds == {Cmd.F, Cmd.W, Cmd.A, Cmd.R, Cmd.S, Cmd.E}

OldName == [i \in 1..MaxNameLen |-> 65]

OldCard == [BlankCard EXCEPT ![OldName] = [kind |-> "file", data |-> <<65>>]]

InitFile == PowerUp(OldCard) /\ hpc = "free" /\ hlen = 0

HostWriteFile ==
  \E b \in FileCmds \cup NameBytes \cup DataBytes :
    HostSends(FileCmds, b) /\ DataHostWriteEv(b, "none", FALSE)

HostSelectWriteFile == hlen < MaxSelFile /\ AddressHostWriteEv

HostSelectReadFile == hlen < MaxSelFile /\ Len(out) < MaxOut /\ AddressHostReadEv

NextFile ==
  \/ HostSelectWriteFile /\ hlen' = hlen + 1 /\ hpc' = hpc
  \/ HostSelectReadFile /\ hlen' = hlen + 1 /\ hpc' = hpc
  \/ StopEv /\ UNCHANGED hvars
  \/ HostWriteFile /\ UNCHANGED hvars
  \/ HostRead /\ UNCHANGED hvars

SpecFile == InitFile /\ [][NextFile]_vars

(***************************************************************************)
(* Specification: the free host on a card that already holds one file      *)
(***************************************************************************)

InitOld == PowerUp(OldCard) /\ hpc = "free" /\ hlen = 0

SpecOld == InitOld /\ [][Next]_vars

(***************************************************************************)
(* Specification: a host that may also end a read phase before taking a    *)
(* byte                                                                    *)
(*                                                                         *)
(* The data interrupt that loads the first byte follows the address at     *)
(* once; the host of unnamed/part_000 (read_file_content with size 0)      *)
(* then sends the stop condition without clocking the byte out.            *)
(***************************************************************************)

HostAbandonRead == bus = "rd1" /\ StopIsr

NextProbe ==
  \/ Next
  \/ HostAbandonRead /\ UNCHANGED hvars

SpecProbe == Init /\ [][NextProbe]_vars

(***************************************************************************)
(* Specification: a host that sets filenames of any length                 *)
(*                                                                         *)
(* The host sends 'F' and name bytes for as long as it likes; the firmware *)
(* alone decides how many of them it stores.                               *)
(***************************************************************************)

\* DataHostWrite is about to execute Filename[ch] = 0 with ch = Namelength.
StoresOutside == cmd = Cmd.F /\ NameRoom(ch) /\ ch + 1 >= Namelength

HostWriteName ==
  \E b \in {Cmd.F} \cup NameBytes, v \in Victims :
    /\ IF cmd = 0 THEN b = Cmd.F ELSE b \in NameBytes
    /\ IF StoresOutside THEN TRUE ELSE v = "none"
    /\ DataHostWriteEv(b, v, FALSE)

HostSelectWriteName == hlen < MaxSelName /\ AddressHostWriteEv

NextName ==
  \/ HostSelectWriteName /\ hlen' = hlen + 1 /\ hpc' = hpc
  \/ StopEv /\ UNCHANGED hvars
  \/ HostWriteName /\ UNCHANGED hvars

SpecName == Init /\ [][NextName]_vars

(***************************************************************************)
(* Specification: the host routine listSDContents (examples/               *)
(* I2CSDCardTinyI2C.ino) on a card with any root directory                 *)
(***************************************************************************)

\* The cards the listing runs start with: every name is absent, an empty file
\* or a directory.
ListCards ==
  [CardNames -> {NoEntry, [kind |-> "file", data |-> <<>>],
                 [kind |-> "dir", data |-> <<>>]}]

InitList == (\E c \in ListCards : PowerUp(c)) /\ hpc = "L:start" /\ hlen = 0

\* char c = Wire.read(): the byte the last read transaction delivered.
LastByte == out[Len(out)]

\* Wire.beginTransmission(address); Wire.write('L'); Wire.endTransmission();
ListSelect ==
  hpc = "L:start" /\ AddressHostWriteEv /\ hpc' = "L:cmd" /\ hlen' = hlen

ListCommand ==
  hpc = "L:cmd" /\ DataHostWriteEv(Cmd.L, "none", FALSE) /\ hpc' = "L:stop"
    /\ hlen' = hlen

ListEnd ==
  hpc = "L:stop" /\ StopEv /\ hpc' = "rd:start" /\ hlen' = hlen

\* Wire.requestFrom(address, 1): address, one byte, NACK, stop.
ListRequest ==
  hpc = "rd:start" /\ AddressHostReadEv /\ hpc' = "rd:byte" /\ hlen' = hlen

ListByte ==
  hpc = "rd:byte" /\ DataHostReadEv(RXACK) /\ hpc' = "rd:nack" /\ hlen' = hlen

ListNack ==
  hpc = "rd:nack" /\ DataHostReadEv(TRUE) /\ hpc' = "rd:stop" /\ hlen' = hlen

\* The stop, then the loop body: a character extends filename, a 0 after
\* characters ends a name, a 0 with filename empty ends the listing.
ListMore ==
  /\ hpc = "rd:stop" /\ ~(LastByte = 0 /\ hlen = 0)
  /\ StopEv
  /\ hpc' = "rd:start"
  /\ hlen' = IF LastByte = 0 THEN 0 ELSE 1

ListDone ==
  /\ hpc = "rd:stop" /\ LastByte = 0 /\ hlen = 0
  /\ StopEv
  /\ hpc' = "done" /\ hlen' = hlen

NextList ==
  \/ ListSelect
  \/ ListCommand
  \/ ListEnd
  \/ ListRequest
  \/ ListByte
  \/ ListNack
  \/ ListMore
  \/ ListDone

\* The host routine keeps running and every interrupt it raises is served.
SpecList == InitList /\ [][NextList]_vars /\ WF_vars(NextList)

(***************************************************************************)
(* Properties                                                              *)
(***************************************************************************)

\* C1 (round trip): after a stop-terminated write transaction 'W' + B that was
\* acknowledged, a transaction that sends 'R' (acknowledged) and reads after a
\* repeated start gets the bytes of B in order.
C1_RoundTrip ==
  (cmd = Cmd.R /\ cmdAck /\ shape = "wr" /\ exp.on /\ exp.age = 1 /\ ~exp.app)
    => \A i \in 1..Len(out) : i <= Len(exp.data) => out[i] = exp.data[i]

\* C2 (stop closes every handle): in every state that directly follows a stop
\* interrupt neither myFile nor dir is open.
C2_StopClosesHandles ==
  ev = "Stop" => ~myFile.open /\ ~dir.open

\* What the header comment describes for 'L': every entry's name in full, each
\* followed by 0, then a 0 with no name character before it.
RECURSIVE Listing(_)
Listing(entries) ==
  IF entries = <<>> THEN <<0>>
  ELSE Head(entries) \o <<0>> \o Listing(Tail(entries))

\* C3 (directory listing): the bytes produced by the successive read requests
\* of one read phase after 'L' are the names of all entries of the root, each
\* once and in full and followed by 0, and then a 0.
C3_ListingStream ==
  (cmd = Cmd.L /\ shape \in {"wr", "wsr"})
    => \A i \in 1..Len(out) :
         i <= Len(Listing(RootEntries(card))) => out[i] = Listing(RootEntries(card))[i]

\* C5 (reset at dispatch): once 'Z' has been received as the command byte of a
\* write-direction transaction the reset has been triggered, with no read
\* request.
C5_ResetAtDispatch ==
  (ev = "DataWrite" /\ nw = 1 /\ cmd = Cmd.Z) => halted

\* C9 (payload in a later transaction): after 'W' sent alone in a stop-terminated
\* transaction and acknowledged, a payload byte sent in the next stop-terminated
\* write transaction is in the file when that transaction has ended, as it
\* would be had it followed the 'W' directly.
C9_PayloadLater ==
  [][(ev' = "Stop" /\ shape = "w" /\ nw = 1 /\ cmd \in DataBytes
        /\ exp.on /\ exp.age = 1 /\ ~exp.app /\ exp.fresh /\ exp.data = <<>>)
       => Entry(card', CStr(Filename')).data = <<cmd>>]_vars

\* The byte of a 32-bit value v that is sent as the i-th of four, most
\* significant first.
BigEndianByte(v, i) == (v \div (256 ^ (4 - i))) % 256

C10_Exists ==
  (cmd = Cmd.E /\ out # <<>>)
    => /\ Entry(card, Name).kind = "none" => out[1] = 0
       /\ prevWA # "no" => out[1] = 1

\* C10, amended: ... and returns 1 when the selection before it was a 'W' or
\* 'A' command that was acknowledged with no file handle open, so that the
\* command opened the file.
C10_ExistsOpened ==
  (cmd = Cmd.E /\ out # <<>>)
    => /\ Entry(card, Name).kind = "none" => out[1] = 0
       /\ prevWA = "fresh" => out[1] = 1

C10_Witness ==
  cmd = Cmd.E /\ prevWA = "fresh" /\ out = <<1>> /\ Entry(card, Name).data = <<>>

\* C4 (listing terminates): with listSDContents on a card whose root is not
\* empty, the host eventually receives a 0 with no name character before it
\* and leaves its loop.
C4_ListingTerminates ==
  (RootEntries(card) # <<>>) => <>(hpc = "done")

\* C6 (filename terminated within its bound): Filename always holds a 0 within
\* its Namelength bytes, and no store has gone outside Filename[0..Namelength-1].
C6_NameTerminated ==
  (\E i \in 1..Namelength : Filename[i] = 0) /\ ~oob

\* The data interrupt just served called DataHostRead (it was not the one
\* that only clears checknack).
Produced == ev' = "DataRead" /\ ~(RXACK' /\ checknack)

\* C11 (remove): a byte request under 'X' returns 1 when the named file exists,
\* and the exists query of the next selection then returns 0; on a name with no
\* entry it returns 0 and the card is unchanged.
C11_Remove ==
  /\ [][(Produced /\ cmd = Cmd.X) =>
         /\ Entry(card, Name).kind = "file" =>
              out'[Len(out')] = 1 /\ Entry(card', Name).kind = "none"
         /\ Entry(card, Name).kind = "none" =>
              out'[Len(out')] = 0 /\ card' = card]_vars
  /\ []((cmd = Cmd.E /\ prevX /\ out # <<>>) => out[1] = 0)

C11_Witness ==
  cmd = Cmd.E /\ prevX /\ out = <<0>> /\ Name = OldName

\* C12 (one handle at a time): myFile and dir are never both open; dir is open
\* only while 'L' is the active command and myFile is closed.
C12_OneHandle ==
  /\ ~(myFile.open /\ dir.open)
  /\ dir.open => (cmd = Cmd.L /\ ~myFile.open)

\* C13 (first byte request of a read phase): the first data interrupt of
\* every read phase is answered by DataHostRead whatever RXACK shows, that is,
\* checknack is false when it arrives.
C13_FirstRequest ==
  [][(bus = "rd0" /\ ev' = "DataRead") => (Produced /\ ~checknack)]_vars

\* C14 (open dispatch): with no file open, the command byte 'W', 'A', 'R' or
\* 'S' is acknowledged exactly when SD.open gave a file; after the negative
\* acknowledgement no file is open; 'R' and 'S' leave the card as it was.
C14_OpenDispatch ==
  [][(ev' = "DataWrite" /\ cmd = 0 /\ ~myFile.open
        /\ cmd' \in {Cmd.W, Cmd.A, Cmd.R, Cmd.S}) =>
       /\ ack' = (myFile'.open /\ myFile'.name = Name)
       /\ ~ack' => myFile' = NoFile
       /\ cmd' \in {Cmd.R, Cmd.S} => card' = card]_vars

C14_Witness ==
  /\ ev = "DataWrite" /\ nw = 1 /\ cmd = Cmd.R /\ ~ack /\ ~myFile.open
  /\ Name \in CardNames /\ Entry(card, Name).kind = "none"

\* The command bytes that DataHostWrite, DataHostRead or Stop have a case for.
Commands ==
  {Cmd.F, Cmd.W, Cmd.R, Cmd.S, Cmd.A, Cmd.D, Cmd.E, Cmd.X, Cmd.L, Cmd.Z}

\* C15 (unknown command): with no file open, a command byte that is no command
\* is negatively acknowledged and stays in cmd, and every further byte of the
\* write phase is negatively acknowledged and changes neither Filename nor
\* myFile nor the card.
C15_UnknownCommand ==
  [][(ev' = "DataWrite" /\ ~myFile.open
        /\ \/ nw = 0 /\ cmd' \notin Commands
           \/ nw >= 1 /\ ~cmdAck /\ cmd \notin Commands) =>
       /\ ~ack'
       /\ nw >= 1 => cmd' = cmd
       /\ UNCHANGED <<Filename, myFile, card>>]_vars

\* C16 (make directory): with no file open, the command byte 'D' is answered
\* by one SD.mkdir(Filename): acknowledged exactly when the call returned true
\* (always for a free name, which is then a directory; never for a name the
\* card cannot hold), the card unchanged when it returned false, and neither
\* myFile nor dir opened.
C16_MakeDirectory ==
  [][(ev' = "DataWrite" /\ cmd = 0 /\ ~myFile.open /\ cmd' = Cmd.D) =>
       /\ (Name \in CardNames /\ Entry(card, Name).kind = "none") =>
            (ack' /\ card' = [card EXCEPT ![Name] = [kind |-> "dir", data |-> <<>>]])
       /\ ack' => Entry(card', Name).kind # "none"
       /\ Entry(card, Name).kind # "none" => card' = card
       /\ ~ack' => card' = card
       /\ myFile' = NoFile /\ dir' = dir]_vars

C16_Witness ==
  /\ ev = "DataWrite" /\ nw = 1 /\ cmd = Cmd.D /\ ack /\ ~myFile.open /\ ~dir.open
  /\ Entry(card, Name).kind = "dir"

\* C17 (write-direction selection): it sets cmd, ch and ptr to 0 and leaves
\* the contents of Filename, myFile and dir as they were.
C17_SelectWrite ==
  [][ev' = "AddrWrite" =>
       /\ cmd' = 0 /\ ch' = 0 /\ ptr' = 0
       /\ UNCHANGED <<Filename, myFile, dir>>]_vars

C17_Witness ==
  /\ ev = "AddrWrite" /\ cmd = 0 /\ ch = 0 /\ ptr = 0
  /\ Name # <<>> /\ myFile.open /\ dir.open

\* C18 (read-direction selection): it leaves cmd, ch, ptr, Filename, myFile
\* and dir as they were, and a command in cmd is cleared by nothing but a
\* write-direction selection, so the command of a write phase is the one the
\* byte requests of the following read phase find.
C18_SelectRead ==
  [][/\ ev' = "AddrRead" => UNCHANGED <<cmd, ch, ptr, Filename, myFile, dir>>
     /\ (cmd # 0 /\ cmd' = 0) => ev' = "AddrWrite"
     /\ (bus = "rd0" /\ ev' = "DataRead") => cmd' = cmd]_vars

C18_Witness ==
  /\ ev = "AddrRead" /\ shape = "wr" /\ cmd = Cmd.S /\ cmdAck /\ myFile.open
  /\ Name # <<>> /\ ch = 0 /\ ptr = 0

\* C19 (continuation): a command byte other than 'F' that finds myFile open is
\* acknowledged and calls neither SD.open nor SD.mkdir (the card and the
\* handle stay as they are); while 'W' phases follow one another by repeated
\* start, the file holds the payloads of all of them in the order sent.
C19_Continuation ==
  /\ [][(ev' = "DataWrite" /\ cmd = 0 /\ myFile.open /\ cmd' # Cmd.F) =>
         (ack' /\ card' = card /\ myFile' = myFile)]_vars
  /\ [](chain.on => (myFile.open /\ Entry(card, myFile.name).data = chain.data))

C19_Witness ==
  /\ chain.on /\ chain.data = <<65, 66>> /\ data = <<66>>
  /\ cmd = Cmd.W /\ cmdAck /\ ~fresh /\ prevWA = "fresh"

\* C20 (one command selector per write phase): whatever the first byte after
\* a write-direction selection was, a later byte of the phase is not dispatched
\* as a command: it leaves cmd as it is, opens no file and changes no entry's
\* kind on the card.
C20_FirstByteOnly ==
  [][(ev' = "DataWrite" /\ nw >= 1) =>
       /\ cmd' = cmd
       /\ myFile'.open = myFile.open
       /\ \A n \in CardNames : card'[n].kind = card[n].kind]_vars

C22_NackOnlyOnFailure ==
  [][(ev' = "DataWrite" /\ cmd = 0 /\ ~myFile.open /\ ~ack') =>
       \/ cmd' \notin Commands
       \/ cmd' \in {Cmd.W, Cmd.A, Cmd.R, Cmd.S} /\ ~myFile'.open
       \/ cmd' = Cmd.D /\ card' = card]_vars

\* C23 (filename setting): once 'F' and k name bytes (1 <= k < Namelength)
\* have arrived in a write phase, the name the backend reads from Filename is
\* exactly those k bytes, whatever name was held before; and Filename changes
\* at no event other than a byte received under 'F'.
C23_Filename ==
  /\ []((cmd = Cmd.F /\ 1 <= Len(data) /\ Len(data) < Namelength) => Name = data)
  /\ [][Filename' # Filename => (ev' = "DataWrite" /\ cmd = Cmd.F)]_vars

C23_Witness ==
  /\ ev = "Stop" /\ cmd = Cmd.F /\ data = <<65>> /\ Name = <<65>>
  /\ Entry(card, <<65, 65>>).kind = "file"

\* C24 (remove once per read phase): under 'X' the first byte request of a
\* read phase calls SD.remove, and no later byte request of the phase calls it
\* again.
C24_RemoveOnce ==
  /\ [][(bus = "rd0" /\ ev' = "DataRead" /\ cmd = Cmd.X /\ Produced) =>
         removes' = 1]_vars
  /\ [](removes <= 1)

C26_StopFrame ==
  /\ [][ev' = "Stop" =>
         /\ myFile' = IF cmd \in {Cmd.W, Cmd.A, Cmd.R, Cmd.S} THEN NoFile ELSE myFile
         /\ dir' = IF cmd = Cmd.L THEN NoDir ELSE dir
         /\ UNCHANGED <<cmd, ch, ptr, Filename, Filesize, checknack, card, halted>>]_vars
  /\ [](ev = "Stop" => (Stop.myFile = myFile /\ Stop.dir = dir))

C26_Witness ==
  /\ ev = "Stop" /\ cmd = Cmd.W /\ cmdAck /\ fresh /\ data = <<65>>
  /\ ~myFile.open /\ Entry(card, Name).data = <<65>>

\* C27 (the handle is the named file): after the acknowledgement of a 'W',
\* 'A', 'R' or 'S' command byte, the file that myFile has open for the payload
\* bytes and byte requests of that command is the one Filename names.
C27_HandleNamed ==
  (cmd \in {Cmd.W, Cmd.A, Cmd.R, Cmd.S} /\ cmdAck /\ myFile.open) =>
    myFile.name = Name

\* C27 as it holds: the same for a command byte that was acknowledged while
\* no file was open, so that it opened myFile.
C27_HandleNamedOpened ==
  (cmd \in {Cmd.W, Cmd.A, Cmd.R, Cmd.S} /\ cmdAck /\ fresh /\ myFile.open) =>
    myFile.name = Name

C27_Witness ==
  /\ ev = "DataRead" /\ cmd = Cmd.R /\ cmdAck /\ fresh /\ out = <<65>>
  /\ myFile.open /\ myFile.name = Name /\ Len(Name) = 2

\* C28 (size query cursor): under 'S' ptr stays within 0..4; a byte request at
\* ptr below 4 advances ptr by one and captures the size only at ptr 0; a byte
\* request at ptr 4 emits 0 and leaves ptr and the captured size unchanged.
C28_SizeCursor ==
  /\ [](cmd = Cmd.S => ptr \in 0..4)
  /\ [][(Produced /\ cmd = Cmd.S) =>
         IF ptr < 4
         THEN /\ ptr' = ptr + 1
              /\ Filesize' = IF ptr = 0 THEN FileSize(card, myFile) ELSE Filesize
         ELSE /\ ptr' = ptr /\ Filesize' = Filesize
              /\ out'[Len(out')] = 0]_vars

C28_Witness ==
  /\ ev = "DataRead" /\ cmd = Cmd.S /\ ptr = 4 /\ Filesize = 1
  /\ out = <<0, 0, 0, 1, 0>>

====
